---- MODULE Spec2Model ----
(***************************************************************************)
(* The streaming generation-to-speech pipeline of ai-teacher:              *)
(*   - TTSManager (src/src/models/tts.py): text_buffer, audio_queue, the   *)
(*     generator worker thread, add_text, force_process, get_next_audio;   *)
(*   - the /llm chat handler and the /tts-stream generator                 *)
(*     (src/src/api/routes.py), both coroutines of one event loop.         *)
(*                                                                         *)
(* Two OS threads run: the event loop (chat handler and /tts-stream,       *)
(* which interleave with each other only at their awaits and yields) and   *)
(* the generator worker.  text_buffer is a plain attribute with no lock,   *)
(* so every read and every write of it is a step of its own; audio_queue   *)
(* is a queue.Queue, whose operations are atomic.                          *)
(*                                                                         *)
(* A character is a record [c, f]: c the character, f the number of the    *)
(* add_text call that fed it (history only, the code never reads f).       *)
(***************************************************************************)
EXTENDS Integers, Sequences, FiniteSets, TLC

\* ------------------------------------------------------------- bounds
\* Turns (POST /llm requests) in a run.
MaxTurns == 2
\* Fragments the generator yields in a run, over all its turns.
MaxFrags == 3
\* Audio units mirrored into the ring in a run of RingSpec.
MaxPushes == 22
\* StreamSpec: the horizon of the channel's clock, in ticks, and the audio
\* units that arrive on audio_queue in a run.
MaxElapsed == 1010
MaxEnvAudio == 2
\* OverlapSpec: the fragments a generator yields in one turn.
MaxHFrags == 2
\* WaitSpec: the audio units a producer puts in a run.
MaxWaitUnits == 3
\* PollSpec: the longest buffer a poll is given.
MaxPollLen == 4
MaxRequests == 3
MaxStarts == 3
MaxClientQueue == 3
MaxContext == 5
MaxHistTurns == 3
\* GenSpec: generate_stream's max_new_tokens (200 by default, a parameter).
max_new_tokens == 6
\* TTSManager.min_buffer_size, scaled down from its default of 50.
min_buffer_size == 2

\* ---------------------------------------------------------- constants
\* queue.Queue(maxsize=20)
RingCapacity == 20

\* generate(): max_idle_time = 10 (seconds), `if idle_count > 5`.
max_idle_time == 10
MaxIdleStrikes == 5

\* The channel's clock ticks every 0.05 s: asyncio.sleep(0.05) after an audio
\* event is 1 tick, asyncio.sleep(0.1) after a ping 2, asyncio.sleep(0.5) after
\* an error 10.
TicksPerSecond == 20
AudioSleep == 1
PollSleep == 2
ErrSleep == 10

\* generate_stream: `if self.newline_counter >= 5`, `if empty_token_count >= 5`.
NewlineLimit == 5
EmptyLimit == 5

\* _should_process_buffer's list, in its order.
sentence_end_marks == <<".", "!", "?", ":", ";">>

\* add_text's and get_next_audio's list.
force_marks == {".", "!", "?"}

\* The fragments the generator may yield.
Fragments == { <<"a", ":">>, <<"a", " ">>, <<"?">> }

Alphabet == UNION { {fr[i] : i \in 1..Len(fr)} : fr \in Fragments }

\* ------------------------------------------------------------ strings
SetMax(S) == CHOOSE x \in S : \A y \in S : y <= x
SetMin(S) == CHOOSE x \in S : \A y \in S : x <= y

\* The fragment as fed by add_text call number n.
Tag(fr, n) == [i \in 1..Len(fr) |-> [c |-> fr[i], f |-> n]]

\* The characters alone.
Text(s) == [i \in 1..Len(s) |-> s[i].c]

\* str.rfind: the 0-based index of the last occurrence, or -1.
RFind(s, m) ==
  LET I == {i \in 1..Len(s) : s[i].c = m}
  IN  IF I = {} THEN -1 ELSE SetMax(I) - 1

\* s[:k] and s[k:] for k >= 0.
Prefix(s, k) == SubSeq(s, 1, IF k < Len(s) THEN k ELSE Len(s))
Suffix(s, k) == IF k >= Len(s) THEN <<>> ELSE SubSeq(s, k + 1, Len(s))

\* str.strip().
Strip(s) ==
  LET I == {i \in 1..Len(s) : s[i].c # " "}
  IN  IF I = {} THEN <<>> ELSE SubSeq(s, SetMin(I), SetMax(I))

\* any(p in text for p in ['.', '!', '?'])
HasForceMark(s) == \E i \in 1..Len(s) : s[i].c \in force_marks

RECURSIVE Flatten(_)
Flatten(ss) == IF ss = <<>> THEN <<>> ELSE Head(ss) \o Flatten(Tail(ss))


\* A synthesis whose failure yields noise instead of the empty array: a variant
\* C15 must tell apart from the code's.
GenerateAudioNoise(text, ok) ==
  IF Strip(text) = <<>> \/ ~ok THEN Tag(<<"?">>, 0) ELSE text

\* _generate_audio_internal: the audio synthesized from `text`, identified by
\* the text it was made from; <<>> is the empty array (blank text, an engine
\* failure or an exception, all of which return np.array([])).
GenerateAudio(text, ok) == IF Strip(text) = <<>> \/ ~ok THEN <<>> ELSE text

\* The mirror into persistent_audio_buffer: evict the oldest when full.
RingPush(ring, audio) ==
  IF Len(ring) >= RingCapacity THEN Append(Tail(ring), audio)
  ELSE Append(ring, audio)

\* The threshold test with >= in place of >: a variant the amended C8 must
\* tell apart from the code's.
OverThresholdGE(n) == n >= min_buffer_size

\* len(self.text_buffer) > self.min_buffer_size
OverThreshold(n) == n > min_buffer_size

\* The marks of sentence_end_marks that occur in Alphabet, in list order: rfind
\* of any other mark is -1 on every buffer, a local step without effect.
ScanMarks == {i \in 1..Len(sentence_end_marks) : sentence_end_marks[i] \in Alphabet}
FirstMark == SetMin(ScanMarks)
LastMark == SetMax(ScanMarks)
NextMark(i) == SetMin({j \in ScanMarks : j > i})

MinF(u) == SetMin({u[i].f : i \in 1..Len(u)})
MaxF(u) == SetMax({u[i].f : i \in 1..Len(u)})

\* -------------------------------------------------------------- state
VARIABLES
  text_buffer,              \* TTSManager.text_buffer
  audio_queue,              \* TTSManager.audio_queue
  persistent_audio_buffer,  \* routes.persistent_audio_buffer
  w_pc, w_mark, w_index, w_text, w_rest,   \* the generator worker thread
  el_pc, el_ret, el_frag, el_tmp, el_text, \* the event loop thread
  chat_pc,                  \* the chat coroutine
  st_pc,                    \* the /tts-stream coroutine
  \* history: what was fed, emitted, enqueued, taken and delivered
  turn,           \* turns started so far
  nfrag,          \* add_text calls so far
  frags_in_turn,  \* add_text calls of the current turn
  fence,          \* nfrag when the current turn's reset began
  fed,            \* the current turn's fragments, concatenated
  units,          \* the current turn's text units, in emission order
  last_enq,       \* the audio unit put on audio_queue last
  enq_hi,         \* over the units put before it, the greatest MinF
  n_taken,        \* units the channel took from audio_queue
  n_events,       \* audio events the channel emitted
  n_conv_err,     \* units whose encoding raised
  last_taken,     \* the unit the channel took last
  last_event,     \* the audio event emitted for last_taken: [unit, fence]
  full_response,  \* chat's full_response, the fragments accumulated in the turn
  result,         \* what the last POST /llm returned: [status, response]
  \* the mirror into the ring, statement by statement
  r_started,      \* units whose mirroring has begun
  r_count,        \* units put into the ring so far
  r_pushed,       \* the units put into the ring since it was last emptied
  \* the channel's loop, timed
  s_elapsed,      \* time.time() - last_audio_time, in ticks
  idle_count,     \* generate()'s idle_count
  s_quiet,        \* since the last audio event: no unit taken, text_buffer empty
  s_env,          \* audio units that arrived so far
  s_events,       \* kinds of the events generate() yielded, a run of pings once
  llm_queue,      \* LLMManager.llm_queue: requests, and None from shutdown
  llm_unfinished, \* llm_queue.unfinished_tasks
  llm_running,    \* LLMManager.is_running
  l_pc,           \* where _llm_worker is
  l_item,         \* _llm_worker's local `item`: unset, a request, or None
  l_sub,          \* requests submitted by stream_request so far
  l_marked,       \* requests whose processing the worker has ended
  l_gens,         \* per request: what became of its generate_stream call
  l_wait,         \* where wait_until_done is
  is_running,     \* TTSManager.is_running
  stop_event,     \* app.py: stop_event is set
  audio_stream_threads, \* app.py: the receive threads in audio_stream_threads
  client_audio_queue,   \* app.py: audio_queue, each item as the thread that put it
  c_alive,        \* the receive threads that are running
  c_current,      \* the receive thread of the stream not yet stopped, or 0
  c_started,      \* calls of start_tts_stream so far
  conversation_history, \* routes.py: conversation_history[conversation_id]
  o_in,           \* the argument of the last optimize_conversation_history
  o_out,          \* what that call returned
  o_next,         \* messages created so far
  o_turns,        \* /llm turns that returned a response
  \* the requests to chat and their generator
  t_turn,         \* the turn of the request received last
  t_conv,         \* its request.conversation_id
  t_prev,         \* the conversation_id of the request before it
  t_err_at,       \* the fragment that is generate_stream's error message, or 0
  \* one call of generate_stream
  g_pc,           \* idle, loop, report, done or raised
  g_i,            \* the i of `for i in range(max_new_tokens)`
  newline_counter,
  empty_token_count,
  g_out,          \* the fragments yielded so far
  \* two requests to chat on the event loop
  h_pc,           \* per request: none, token_wait, final_wait or done
  h_frags,        \* per request: the fragments its generator has yielded
  h_ops,          \* the requests whose code changed the buffers, in order
  \* a call of TTSManager.wait_until_done
  j_pc,             \* idle, join, drain or returned
  unfinished_tasks, \* audio_queue.unfinished_tasks: puts less task_done calls
  j_puts,           \* units put by the producer
  j_removed,        \* units wait_until_done itself took from audio_queue
  \* a call of _should_process_buffer on its own
  p_before,         \* text_buffer when the last call began
  p_unit,           \* what the last call returned, <<>> for None
  p_after           \* text_buffer when the last call returned

prog == <<text_buffer, audio_queue, persistent_audio_buffer>>
wvars == <<w_pc, w_mark, w_index, w_text, w_rest>>
elvars == <<el_pc, el_ret, el_frag, el_tmp, el_text>>
turnhist == <<turn, nfrag, frags_in_turn, fence, fed>>
enqhist == <<last_enq, enq_hi>>
sthist == <<n_taken, n_events, n_conv_err, last_taken, last_event>>
hist == <<turnhist, units, enqhist, sthist>>
resp == <<full_response, result>>
ringvars == <<r_started, r_count, r_pushed>>
stvars == <<s_elapsed, idle_count, s_quiet, s_env>>
tvars == <<t_turn, t_conv, t_prev, t_err_at>>
gvars == <<g_pc, g_i, newline_counter, empty_token_count, g_out>>
hvars == <<h_pc, h_frags, h_ops>>
jvars == <<j_pc, unfinished_tasks, j_puts, j_removed>>
pvars == <<p_before, p_unit, p_after>>
evvars == <<s_events>>
lvars == <<llm_queue, llm_unfinished, llm_running, l_pc, l_item, l_sub,
           l_marked, l_gens, l_wait>>
kvars == <<is_running>>
cvars == <<stop_event, audio_stream_threads, client_audio_queue, c_alive,
           c_current, c_started>>
ovars == <<conversation_history, o_in, o_out, o_next, o_turns>>
late == <<lvars, kvars, cvars, ovars>>
more == <<hvars, jvars, pvars, evvars, late>>
ext == <<ringvars, stvars, tvars, gvars, more>>
vars == <<prog, wvars, elvars, chat_pc, st_pc, hist, resp, ext>>

NoEvent == [unit |-> <<>>, fence |-> 0]

\* No request has returned yet; a request is being handled.
NoResult == [status |-> "none", response |-> <<>>]
Pending == [status |-> "pending", response |-> <<>>]

\* The requests stream_request can put, numbered from 1; the None that
\* shutdown puts; and the value of a local that was never assigned.
Requests == 1..MaxRequests
None == 0
Unset == 0 - 1

\* Two POST /llm requests, each served by its own call of chat.
Handlers == {1, 2}

\* The two threads that put audio: the generator worker and the event loop.
Threads == {"worker", "loop"}

Init ==
  /\ text_buffer = <<>>
  /\ audio_queue = <<>>
  /\ persistent_audio_buffer = <<>>
  /\ w_pc = "poll" /\ w_mark = 0 /\ w_index = 0 /\ w_text = <<>> /\ w_rest = <<>>
  /\ el_pc = "idle" /\ el_ret = "none" /\ el_frag = <<>> /\ el_tmp = <<>>
  /\ el_text = <<>>
  /\ chat_pc = "none"
  /\ st_pc = "closed"
  /\ turn = 0 /\ nfrag = 0 /\ frags_in_turn = 0 /\ fence = 0
  /\ fed = <<>> /\ units = <<>>
  /\ last_enq = <<>> /\ enq_hi = 0
  /\ n_taken = 0 /\ n_events = 0 /\ n_conv_err = 0
  /\ last_taken = <<>> /\ last_event = NoEvent
  /\ full_response = <<>> /\ result = NoResult
  /\ r_started = 0 /\ r_count = 0 /\ r_pushed = <<>>
  /\ s_elapsed = 0 /\ idle_count = 0 /\ s_quiet = TRUE /\ s_env = 0
  /\ s_events = <<>>
  /\ llm_queue = <<>> /\ llm_unfinished = 0 /\ llm_running = TRUE
  /\ l_pc = "get" /\ l_item = Unset /\ l_sub = 0 /\ l_marked = {}
  /\ l_gens = [r \in Requests |-> "none"]
  /\ l_wait = "idle"
  /\ is_running = TRUE
  /\ stop_event = FALSE /\ audio_stream_threads = {}
  /\ client_audio_queue = <<>> /\ c_alive = {} /\ c_current = 0
  /\ c_started = 0
  /\ conversation_history = <<>> /\ o_in = <<>> /\ o_out = <<>>
  /\ o_next = 0 /\ o_turns = 0
  /\ t_turn = 0 /\ t_conv = "none" /\ t_prev = "none" /\ t_err_at = 0
  /\ g_pc = "idle" /\ g_i = 0 /\ newline_counter = 0
  /\ empty_token_count = 0 /\ g_out = <<>>
  /\ h_pc = [h \in Handlers |-> "none"]
  /\ h_frags = [h \in Handlers |-> 0]
  /\ h_ops = <<>>
  /\ j_pc = "idle" /\ unfinished_tasks = 0 /\ j_puts = 0 /\ j_removed = 0
  /\ p_before = <<>> /\ p_unit = <<>> /\ p_after = <<>>

\* self.audio_queue.put(audio_data.copy()) and the mirror into the ring, by the
\* worker and by force_process alike; an empty result is logged and skipped.
QueuePut(audio) ==
  /\ audio_queue' = Append(audio_queue, audio)
  /\ last_enq' = audio
  /\ enq_hi' = IF last_enq # <<>> /\ MinF(last_enq) > enq_hi
               THEN MinF(last_enq) ELSE enq_hi

PutAudio(audio) ==
  IF Len(audio) > 0
  THEN /\ QueuePut(audio)
       /\ persistent_audio_buffer' = RingPush(persistent_audio_buffer, audio)
  ELSE UNCHANGED <<audio_queue, persistent_audio_buffer, enqhist>>

\* ------------------------------------------- the generator worker thread
\* _should_process_buffer moves on from mark i: the next mark, or return None
\* and sleep.
WorkerAdvance(i) ==
  /\ w_index' = 0
  /\ IF i = LastMark THEN w_pc' = "poll" /\ w_mark' = 0
     ELSE w_pc' = "scan" /\ w_mark' = NextMark(i)

\* index = self.text_buffer.rfind(mark); `index > 0 and ...`
WorkerRFindAt(i) ==
  LET index == RFind(text_buffer, sentence_end_marks[i])
  IN  IF index > 0 THEN w_pc' = "len" /\ w_mark' = i /\ w_index' = index
      ELSE WorkerAdvance(i)

\* The top of the loop: `if not self.text_buffer: return None`, then the first
\* rfind; with an empty buffer the worker sleeps and polls again.
WorkerPoll ==
  /\ w_pc = "poll"
  /\ IF text_buffer = <<>> THEN UNCHANGED <<w_pc, w_mark, w_index>>
     ELSE WorkerRFindAt(FirstMark)
  /\ UNCHANGED <<prog, w_text, w_rest, elvars, chat_pc, st_pc, hist>>
  /\ UNCHANGED <<resp, ext>>

WorkerRFind ==
  /\ w_pc = "scan"
  /\ WorkerRFindAt(w_mark)
  /\ UNCHANGED <<prog, w_text, w_rest, elvars, chat_pc, st_pc, hist>>
  /\ UNCHANGED <<resp, ext>>

\* `... and len(self.text_buffer) > self.min_buffer_size`
WorkerLen ==
  /\ w_pc = "len"
  /\ IF OverThreshold(Len(text_buffer))
     THEN w_pc' = "take" /\ UNCHANGED <<w_mark, w_index>>
     ELSE WorkerAdvance(w_mark)
  /\ UNCHANGED <<prog, w_text, w_rest, elvars, chat_pc, st_pc, hist>>
  /\ UNCHANGED <<resp, ext>>

\* text_to_process = self.text_buffer[:index+1].strip()
WorkerTake ==
  /\ w_pc = "take"
  /\ w_text' = Strip(Prefix(text_buffer, w_index + 1))
  /\ w_pc' = "rest"
  /\ UNCHANGED <<prog, w_mark, w_index, w_rest, elvars, chat_pc, st_pc, hist>>
  /\ UNCHANGED <<resp, ext>>

\* The right-hand side of self.text_buffer = self.text_buffer[index+1:].strip()
WorkerRest ==
  /\ w_pc = "rest"
  /\ w_rest' = Strip(Suffix(text_buffer, w_index + 1))
  /\ w_pc' = "store"
  /\ UNCHANGED <<prog, w_mark, w_index, w_text, elvars, chat_pc, st_pc, hist>>
  /\ UNCHANGED <<resp, ext>>

\* The store of that assignment, the return, and `if text_to_process:` in
\* _generator_worker, which starts the synthesis call.
WorkerStore ==
  /\ w_pc = "store"
  /\ text_buffer' = w_rest
  /\ w_rest' = <<>> /\ w_mark' = 0 /\ w_index' = 0
  /\ UNCHANGED w_text
  /\ IF w_text # <<>>
     THEN w_pc' = "synth" /\ units' = Append(units, w_text)
     ELSE w_pc' = "poll" /\ UNCHANGED units
  /\ UNCHANGED <<audio_queue, persistent_audio_buffer, elvars, chat_pc, st_pc,
                 turnhist, enqhist, sthist>>
  /\ UNCHANGED <<resp, ext>>

\* _generate_audio_internal returns; a non-empty result is put on audio_queue
\* and mirrored into the ring; then the worker sleeps.
WorkerSynth ==
  /\ w_pc = "synth"
  /\ \E ok \in BOOLEAN : PutAudio(GenerateAudio(w_text, ok))
  /\ w_pc' = "poll" /\ w_text' = <<>>
  /\ UNCHANGED <<text_buffer, w_mark, w_index, w_rest, elvars, chat_pc, st_pc,
                 turnhist, units, sthist>>
  /\ UNCHANGED <<resp, ext>>

\* ------------------------------------------------ the event loop thread
\* chat, lines 303-304: a new turn starts, tts_manager.text_buffer = "".
\* Turns follow one another: a request arrives after the last one returned.
ChatStart ==
  /\ el_pc = "idle" /\ chat_pc = "none" /\ turn < MaxTurns
  /\ text_buffer' = <<>>
  /\ el_pc' = "drain" /\ chat_pc' = "running"
  /\ turn' = turn + 1 /\ fence' = nfrag /\ frags_in_turn' = 0
  /\ fed' = <<>> /\ units' = <<>>
  /\ UNCHANGED <<audio_queue, persistent_audio_buffer, wvars, el_ret, el_frag,
                 el_tmp, el_text, st_pc, nfrag, enqhist, sthist>>
  /\ full_response' = <<>> /\ result' = Pending
  /\ UNCHANGED ext

\* A reset that takes every queue for empty: a variant C19 must tell apart
\* from the code's.
QueueEmptyAny(q) == TRUE

\* audio_queue.empty()
QueueEmpty(q) == q = <<>>

\* chat, lines 305-310: one round of `while not audio_queue.empty():
\* get_nowait(); task_done()`; the reset is complete when empty() is true.
ChatDrain ==
  /\ el_pc = "drain"
  /\ IF ~QueueEmpty(audio_queue)
     THEN audio_queue' = Tail(audio_queue) /\ UNCHANGED el_pc
     ELSE el_pc' = "gen" /\ UNCHANGED audio_queue
  /\ UNCHANGED <<text_buffer, persistent_audio_buffer, wvars, el_ret, el_frag,
                 el_tmp, el_text, chat_pc, st_pc, hist>>
  /\ UNCHANGED <<resp, ext>>

\* The handler is at the head of `for text_chunk in generate_stream(messages)`:
\* after the reset, or resuming from `await asyncio.sleep(0.01)`.
AtNextToken == el_pc = "gen" \/ (el_pc = "idle" /\ chat_pc = "streaming")

\* A handler that keeps the last chunk only: a variant C16 must tell apart
\* from the code's.
AccumulateLast(response, text_chunk) == text_chunk

\* full_response += text_chunk
Accumulate(response, text_chunk) == response \o text_chunk

\* The generator yields a fragment and add_text evaluates
\* self.text_buffer + text, the right-hand side of `self.text_buffer += text`.
ChatAddText ==
  /\ AtNextToken /\ nfrag < MaxFrags
  /\ \E fr \in Fragments :
       /\ el_frag' = Tag(fr, nfrag + 1)
       /\ el_tmp' = text_buffer \o Tag(fr, nfrag + 1)
       /\ full_response' = Accumulate(full_response, Tag(fr, nfrag + 1))
  /\ nfrag' = nfrag + 1 /\ frags_in_turn' = frags_in_turn + 1
  /\ el_pc' = "add_store" /\ chat_pc' = "running"
  /\ UNCHANGED <<prog, wvars, el_ret, el_text, st_pc, turn, fence, fed,
                 units, enqhist, sthist>>
  /\ UNCHANGED <<result, ext>>

\* The store of `self.text_buffer += text`; then add_text calls force_process
\* when the fragment holds '.', '!' or '?', and the handler awaits
\* asyncio.sleep(0.01) otherwise.
AddTextStore ==
  /\ el_pc = "add_store"
  /\ text_buffer' = el_tmp
  /\ fed' = fed \o el_frag
  /\ el_tmp' = <<>> /\ el_frag' = <<>>
  /\ IF HasForceMark(el_frag)
     THEN el_pc' = "fp_check" /\ el_ret' = "add_text" /\ UNCHANGED chat_pc
     ELSE el_pc' = "idle" /\ chat_pc' = "streaming" /\ UNCHANGED el_ret
  /\ UNCHANGED <<audio_queue, persistent_audio_buffer, wvars, el_text, st_pc,
                 turn, nfrag, frags_in_turn, fence, units, enqhist, sthist>>
  /\ UNCHANGED <<resp, ext>>

\* The generator is exhausted: chat calls tts_manager.force_process().
ChatStreamEnd ==
  /\ AtNextToken
  /\ el_pc' = "fp_check" /\ el_ret' = "chat" /\ chat_pc' = "running"
  /\ UNCHANGED <<prog, wvars, el_frag, el_tmp, el_text, st_pc, hist>>
  /\ UNCHANGED <<resp, ext>>

\* force_process returns to its caller: add_text (the handler then awaits the
\* per-token sleep), chat (it awaits asyncio.sleep(0.5)) or get_next_audio
\* (line 592).
ForceReturn ==
  /\ el_ret' = "none" /\ el_text' = <<>>
  /\ IF el_ret = "gna" THEN el_pc' = "gna_get" /\ UNCHANGED chat_pc
     ELSE /\ el_pc' = "idle"
          /\ chat_pc' = IF el_ret = "add_text" THEN "streaming" ELSE "final_wait"

\* force_process: `if len(self.text_buffer) > 0: text_to_process =
\* self.text_buffer`.  The two reads are one step: a worker store between them
\* leaves either the same buffer as a later single read, or an empty one, and
\* then nothing is synthesized and the clearing store changes nothing.
ForceTake ==
  /\ el_pc = "fp_check"
  /\ IF Len(text_buffer) > 0
     THEN el_text' = text_buffer /\ el_pc' = "fp_clear" /\ UNCHANGED <<el_ret, chat_pc>>
     ELSE ForceReturn
  /\ UNCHANGED <<prog, wvars, el_frag, el_tmp, st_pc, hist>>
  /\ UNCHANGED <<resp, ext>>

\* self.text_buffer = ""; then the synthesis call starts.
ForceClear ==
  /\ el_pc = "fp_clear"
  /\ text_buffer' = <<>>
  /\ units' = Append(units, el_text)
  /\ el_pc' = "fp_synth"
  /\ UNCHANGED <<audio_queue, persistent_audio_buffer, wvars, el_ret, el_frag,
                 el_tmp, el_text, chat_pc, st_pc, turnhist, enqhist, sthist>>
  /\ UNCHANGED <<resp, ext>>

\* _generate_audio_internal returns; a non-empty result is put on audio_queue
\* and mirrored into the ring; force_process returns.
ForceSynth ==
  /\ el_pc = "fp_synth"
  /\ \E ok \in BOOLEAN : PutAudio(GenerateAudio(el_text, ok))
  /\ ForceReturn
  /\ UNCHANGED <<text_buffer, wvars, el_frag, el_tmp, st_pc, turnhist, units,
                 sthist>>
  /\ UNCHANGED <<resp, ext>>

\* The handler resumes from asyncio.sleep(0.5) and returns the response.
ChatFinish ==
  /\ el_pc = "idle" /\ chat_pc = "final_wait"
  /\ chat_pc' = "none"
  /\ UNCHANGED <<prog, wvars, elvars, st_pc, hist>>
  /\ result' = [status |-> "ok", response |-> full_response]
  /\ UNCHANGED full_response
  /\ UNCHANGED ext

\* A connect that empties the ring before it yields the connected event: a
\* variant the amended C29 must tell apart from the code's.
StreamConnectDrained ==
  /\ el_pc = "idle" /\ st_pc = "closed"
  /\ persistent_audio_buffer' = <<>>
  /\ st_pc' = "opened"
  /\ UNCHANGED <<text_buffer, audio_queue, wvars, elvars, chat_pc, hist>>
  /\ UNCHANGED <<resp, ext>>

\* GET /tts-stream: generate() yields the connected event.
StreamConnect ==
  /\ el_pc = "idle" /\ st_pc = "closed"
  /\ st_pc' = "opened"
  /\ UNCHANGED <<prog, wvars, elvars, chat_pc, hist>>
  /\ UNCHANGED <<resp, ext>>

\* A connect that leaves the ring as it finds it: a variant C18 must tell
\* apart from the code's.
DrainRingKeep(ring) == ring

\* `while not persistent_audio_buffer.empty(): get_nowait()`: what is left.
DrainRing(ring) == <<>>

\* generate() resumes after the connected event and empties the ring.
StreamOpen ==
  /\ el_pc = "idle" /\ st_pc = "opened"
  /\ persistent_audio_buffer' = DrainRing(persistent_audio_buffer)
  /\ st_pc' = "polling"
  /\ UNCHANGED <<text_buffer, audio_queue, wvars, elvars, chat_pc, hist>>
  /\ UNCHANGED <<resp, ext>>

\* A channel that gets None for every unit it takes: a variant the amended C6
\* must tell apart from the code's.
ReturnedAudioNone(audio) == <<>>

\* get_next_audio's return value for the unit it took from the queue
\* (`audio_data is not None and len(audio_data) > 0`), and generate()'s test of
\* it: the unit, or <<>> for None.
ReturnedAudio(audio) == IF Len(audio) > 0 THEN audio ELSE <<>>

\* get_next_audio, lines 596-609, and generate(), lines 190-241: a unit taken
\* from the queue is encoded and yielded as one audio event (a unit whose
\* encoding raises is logged and skipped); with no unit, a ping is yielded.
\* Then generate() awaits its sleep.
Deliver ==
  /\ IF audio_queue # <<>>
     THEN /\ audio_queue' = Tail(audio_queue)
          /\ n_taken' = n_taken + 1
          /\ last_taken' = Head(audio_queue)
          /\ \E encoded \in BOOLEAN :
               LET audio_data == ReturnedAudio(Head(audio_queue))
               IN  IF audio_data = <<>> THEN UNCHANGED <<n_events, n_conv_err, last_event>>
                   ELSE IF encoded
                   THEN /\ n_events' = n_events + 1
                        /\ last_event' = [unit |-> audio_data, fence |-> fence]
                        /\ UNCHANGED n_conv_err
                   ELSE /\ n_conv_err' = n_conv_err + 1
                        /\ last_event' = NoEvent
                        /\ UNCHANGED n_events
     ELSE UNCHANGED <<audio_queue, sthist>>
  /\ el_pc' = "idle"

\* get_next_audio, line 583-587: the queue is empty and the buffer holds '.',
\* '!' or '?' and is over the threshold.
MustForce ==
  /\ audio_queue = <<>> /\ text_buffer # <<>>
  /\ HasForceMark(text_buffer) /\ OverThreshold(Len(text_buffer))

\* generate() resumes from its sleep and calls get_next_audio: force_process
\* when MustForce, else the queue is polled at once.
StreamPoll ==
  /\ el_pc = "idle" /\ st_pc = "polling"
  /\ IF MustForce
     THEN /\ el_pc' = "fp_check" /\ el_ret' = "gna"
          /\ UNCHANGED <<audio_queue, sthist>>
     ELSE Deliver /\ UNCHANGED el_ret
  /\ UNCHANGED <<text_buffer, persistent_audio_buffer, wvars, el_frag, el_tmp,
                 el_text, chat_pc, st_pc, turnhist, units, enqhist>>
  /\ UNCHANGED <<resp, ext>>

\* get_next_audio after its force_process returned (lines 592-609).
StreamGet ==
  /\ el_pc = "gna_get"
  /\ Deliver
  /\ UNCHANGED <<text_buffer, persistent_audio_buffer, wvars, el_ret, el_frag,
                 el_tmp, el_text, chat_pc, st_pc, turnhist, units, enqhist>>
  /\ UNCHANGED <<resp, ext>>

Next ==
  \/ WorkerPoll \/ WorkerRFind \/ WorkerLen \/ WorkerTake \/ WorkerRest
  \/ WorkerStore \/ WorkerSynth
  \/ ChatStart \/ ChatDrain \/ ChatAddText \/ AddTextStore
  \/ ChatStreamEnd \/ ForceTake \/ ForceClear \/ ForceSynth
  \/ ChatFinish
  \/ StreamConnect \/ StreamOpen \/ StreamPoll \/ StreamGet

Spec == Init /\ [][Next]_vars

\* ---------------------------------------------------- the ring, in steps
\* RingSpec: the mirror into persistent_audio_buffer (tts.py 182-193 in the
\* worker, 516-527 in force_process) and the emptying of the ring by a
\* connecting channel (routes.py 175-176), one queue operation per step.  The
\* worker pushes on its thread; force_process and the channel run on the event
\* loop.  How the audio came to be synthesized and queued is left out: the unit
\* a put adds is Tag("a", k), the k-th put into the ring.
RingPc(t) == IF t = "worker" THEN w_pc ELSE el_pc
RingRest(t) == IF t = "worker" THEN "poll" ELSE "idle"
RingGoto(t, pc) ==
  IF t = "worker" THEN w_pc' = pc /\ UNCHANGED el_pc
  ELSE el_pc' = pc /\ UNCHANGED w_pc

ringframe == <<text_buffer, w_mark, w_index, w_text, w_rest, el_ret, el_frag,
               el_tmp, el_text, chat_pc, turnhist, units, sthist, resp, stvars,
               tvars, gvars, more>>

\* persistent_audio_buffer.full()
RingIsFull(ring) == Len(ring) >= RingCapacity

\* persistent_audio_buffer.get_nowait(); queue.Empty is swallowed.
RingEvict(ring) == IF ring = <<>> THEN ring ELSE Tail(ring)

\* Thread t has put a unit on audio_queue and reaches the mirror.
RingBegin(t) ==
  /\ RingPc(t) = RingRest(t) /\ r_started < MaxPushes
  /\ t = "loop" => st_pc # "clearing"
  /\ r_started' = r_started + 1
  /\ RingGoto(t, "ring_full")
  /\ UNCHANGED <<prog, st_pc, enqhist, r_count, r_pushed, ringframe>>

\* if persistent_audio_buffer.full():
RingCheckFull(t) ==
  /\ RingPc(t) = "ring_full"
  /\ RingGoto(t, IF RingIsFull(persistent_audio_buffer) THEN "ring_evict" ELSE "ring_put")
  /\ UNCHANGED <<prog, st_pc, enqhist, ringvars, ringframe>>

\* persistent_audio_buffer.get_nowait()
RingGetNowait(t) ==
  /\ RingPc(t) = "ring_evict"
  /\ persistent_audio_buffer' = RingEvict(persistent_audio_buffer)
  /\ RingGoto(t, "ring_put")
  /\ UNCHANGED <<text_buffer, audio_queue, st_pc, enqhist, ringvars, ringframe>>

\* persistent_audio_buffer.put(audio_data.copy()): blocks while the ring is full.
RingPut(t) ==
  /\ RingPc(t) = "ring_put"
  /\ Len(persistent_audio_buffer) < RingCapacity
  /\ LET audio == Tag(<<"a">>, r_count + 1)
     IN  /\ persistent_audio_buffer' = Append(persistent_audio_buffer, audio)
         /\ r_pushed' = Append(r_pushed, audio)
  /\ r_count' = r_count + 1
  /\ RingGoto(t, RingRest(t))
  /\ UNCHANGED <<text_buffer, audio_queue, st_pc, enqhist, r_started, ringframe>>

\* generate() resumes after the connected event and enters
\* `while not persistent_audio_buffer.empty():`.
RingClearStart ==
  /\ el_pc = "idle" /\ st_pc = "opened"
  /\ st_pc' = "clearing"
  /\ UNCHANGED <<prog, w_pc, el_pc, enqhist, ringvars, ringframe>>

\* One round of that loop: get_nowait(), or empty() is true and the loop ends.
RingClearStep ==
  /\ st_pc = "clearing"
  /\ IF persistent_audio_buffer # <<>>
     THEN /\ persistent_audio_buffer' = Tail(persistent_audio_buffer)
          /\ UNCHANGED <<st_pc, r_pushed>>
     ELSE /\ st_pc' = "polling" /\ r_pushed' = <<>>
          /\ UNCHANGED persistent_audio_buffer
  /\ UNCHANGED <<text_buffer, audio_queue, w_pc, el_pc, enqhist, r_started,
                 r_count, ringframe>>

RingNext ==
  \/ \E t \in Threads : RingBegin(t)
  \/ \E t \in Threads : RingCheckFull(t)
  \/ \E t \in Threads : RingGetNowait(t)
  \/ \E t \in Threads : RingPut(t)
  \/ StreamConnect \/ RingClearStart \/ RingClearStep

RingSpec == Init /\ [][RingNext]_vars

\* ------------------------------------------------- the channel, timed
\* StreamSpec: the loop of generate() (routes.py 181-251) with its clock, its
\* idle counter, its error handlers and its end.  The rest of the pipeline is
\* reduced to what the loop reads: audio units arrive on audio_queue
\* (ArriveAudio) and text_buffer is empty or holds pending text (ArriveText);
\* the pending text holds no '.', '!' or '?', so get_next_audio never calls
\* force_process here.
PendingText == Tag(<<"a", " ">>, 1)

streamframe == <<w_pc, w_mark, w_index, w_text, w_rest, el_ret, el_frag, el_tmp,
                 el_text, chat_pc, turnhist, units, resp, ringvars, tvars,
                 gvars, hvars, jvars, pvars, late>>

\* The events yielded so far with one more, of the given kind.
Emit(events, kind) ==
  IF kind = "ping" /\ events # <<>> /\ events[Len(events)] = "ping" THEN events
  ELSE Append(events, kind)

\* A generator whose finally block yields nothing: a variant C30 must tell
\* apart from the code's.
FinallySilent(events) == events

\* finally (lines 249-251): `yield "event: close..."`.
Finally(events) == Emit(events, "close")

\* GET /tts-stream with tts_manager set: generate() yields the connected
\* event (StreamConnect, with the event noted).
ChannelConnect ==
  /\ el_pc = "idle" /\ st_pc = "closed"
  /\ st_pc' = "opened"
  /\ s_events' = Emit(s_events, "connected")
  /\ UNCHANGED <<prog, el_pc, enqhist, sthist, stvars, streamframe>>

\* A strike that does not look at text_buffer: a variant C28 must tell apart
\* from the code's.
IdleStrikeAnyText(buffer, elapsed) == elapsed > max_idle_time * TicksPerSecond

\* `not tts_manager.text_buffer and elapsed_since_last_audio > max_idle_time`
IdleStrike(buffer, elapsed) ==
  buffer = <<>> /\ elapsed > max_idle_time * TicksPerSecond

\* `if idle_count > 5:`
IdleLimit(count) == count > MaxIdleStrikes

\* One round of `while True:` in which nothing raises: get_next_audio, then
\* the audio branch (event, counter and clock reset, sleep 0.05; a unit whose
\* conversion raises is skipped, sleep 0.05) or the idle branch (a strike, and
\* break to the close event past the limit; else ping, sleep 0.1).
TimedPoll ==
  /\ el_pc = "idle" /\ st_pc = "polling" /\ ~MustForce
  /\ s_elapsed < MaxElapsed
  /\ Deliver
  /\ IF n_events' > n_events
     THEN /\ idle_count' = 0 /\ s_elapsed' = AudioSleep
          /\ s_quiet' = (text_buffer = <<>>)
          /\ s_events' = Emit(s_events, "audio")
          /\ UNCHANGED st_pc
     ELSE IF audio_queue # <<>>
     THEN /\ s_elapsed' = s_elapsed + AudioSleep /\ s_quiet' = FALSE
          /\ UNCHANGED <<idle_count, st_pc, s_events>>
     ELSE LET strike == IdleStrike(text_buffer, s_elapsed)
              count == IF strike THEN idle_count + 1 ELSE idle_count
          IN  /\ idle_count' = count
              /\ IF strike /\ IdleLimit(count)
                 THEN /\ st_pc' = "done" /\ s_events' = Finally(s_events)
                      /\ UNCHANGED s_elapsed
                 ELSE /\ s_elapsed' = s_elapsed + PollSleep
                      /\ s_events' = Emit(s_events, "ping")
                      /\ UNCHANGED st_pc
              /\ UNCHANGED s_quiet
  /\ UNCHANGED <<text_buffer, persistent_audio_buffer, enqhist, s_env, streamframe>>

\* Something in the round raises an Exception: the inner handler (lines
\* 242-244) logs it and awaits asyncio.sleep(0.5).
PollRaise ==
  /\ el_pc = "idle" /\ st_pc = "polling"
  /\ s_elapsed < MaxElapsed
  /\ st_pc' = "retry"
  /\ UNCHANGED <<prog, el_pc, enqhist, sthist, stvars, evvars, streamframe>>

\* The sleep of the inner handler is over: the loop goes round again.
RetryResume ==
  /\ el_pc = "idle" /\ st_pc = "retry"
  /\ s_elapsed' = s_elapsed + ErrSleep
  /\ st_pc' = "polling"
  /\ UNCHANGED <<prog, el_pc, enqhist, sthist, idle_count, s_quiet, s_env,
                 evvars, streamframe>>

\* An Exception raised within the inner handler reaches the outer one (lines
\* 245-248), which yields the error event.
RetryRaise ==
  /\ el_pc = "idle" /\ st_pc = "retry"
  /\ st_pc' = "closing"
  /\ s_events' = Emit(s_events, "error")
  /\ UNCHANGED <<prog, el_pc, enqhist, sthist, stvars, streamframe>>

\* finally (lines 249-251): the close event.
StreamClose ==
  /\ el_pc = "idle" /\ st_pc = "closing"
  /\ st_pc' = "done"
  /\ s_events' = Finally(s_events)
  /\ UNCHANGED <<prog, el_pc, enqhist, sthist, stvars, streamframe>>

\* A synthesis call somewhere in the pipeline puts a unit on audio_queue.
ArriveAudio ==
  /\ s_env < MaxEnvAudio
  /\ PutAudio(Tag(<<"a">>, s_env + 1))
  /\ s_env' = s_env + 1
  /\ UNCHANGED <<text_buffer, el_pc, st_pc, sthist, s_elapsed, idle_count,
                 s_quiet, evvars, streamframe>>

\* add_text leaves pending text in text_buffer, or the text is taken.
ArriveText ==
  /\ text_buffer' = IF text_buffer = <<>> THEN PendingText ELSE <<>>
  /\ s_quiet' = (s_quiet /\ text_buffer # <<>>)
  /\ UNCHANGED <<audio_queue, persistent_audio_buffer, el_pc, st_pc, enqhist,
                 sthist, s_elapsed, idle_count, s_env, evvars, streamframe>>

StreamNext ==
  \/ ChannelConnect \/ StreamOpen \/ TimedPoll
  \/ PollRaise \/ RetryResume \/ RetryRaise \/ StreamClose
  \/ ArriveAudio \/ ArriveText

StreamSpec == Init /\ [][StreamNext]_vars

\* ------------------------------------------- turns and their generator
\* TurnSpec: the worker and the chat handler as in Spec, with no channel
\* connected, and with what Spec leaves out of a turn: the conversation_id
\* of its request and the failures of generate_stream.
Conversations == {"A", "B"}

\* Where generate_stream can fail: in prepare_messages (llm.py 443), which
\* runs at the first pull before the try block, or inside the try block
\* (445-587), at the first pull or at any later one.
FailureSites(first_pull) ==
  IF first_pull THEN {"prepare", "try"} ELSE {"try"}

\* A generator that lets every exception out: a variant C13 must tell apart
\* from the code's.
EscapesAll(site) == TRUE

\* Whether an exception raised at `site` leaves generate_stream: the handler
\* at 588-599 catches what the try block raises and yields a message instead.
Escapes(site) == site # "try"

\* POST /llm arrives with its conversation_id, after the last turn returned.
TurnRequest ==
  /\ el_pc = "idle" /\ chat_pc = "none"
  /\ t_turn = turn /\ turn < MaxTurns
  /\ \E c \in Conversations : t_conv' = c
  /\ t_prev' = t_conv
  /\ t_turn' = turn + 1
  /\ t_err_at' = 0
  /\ UNCHANGED <<prog, wvars, elvars, chat_pc, st_pc, hist, resp, ringvars,
                 stvars, gvars, more>>

\* The handler starts the turn of the request: the reset, which reads no
\* field of the request.
TurnStart == t_turn = turn + 1 /\ ChatStart

\* The generator yields a token of the model.
TurnAddText == t_err_at = 0 /\ ChatAddText

\* An exception inside generate_stream's try block, after a fragment of this
\* turn was yielded: the handler at 588-599 will yield the error message as
\* the next, and last, fragment.
GenRaise ==
  /\ AtNextToken /\ frags_in_turn > 0
  /\ t_err_at = 0 /\ nfrag < MaxFrags
  /\ \E site \in FailureSites(FALSE) : ~Escapes(site)
  /\ t_err_at' = nfrag + 1
  /\ UNCHANGED <<prog, wvars, elvars, chat_pc, st_pc, hist, resp, ringvars,
                 stvars, gvars, more, t_turn, t_conv, t_prev>>

\* `yield error_msg`: chat treats the message as it treats a token.
TurnErrFragment == t_err_at = nfrag + 1 /\ ChatAddText

\* The generator is exhausted: after a token, or after its error message.
TurnStreamEnd == (t_err_at = 0 \/ nfrag >= t_err_at) /\ ChatStreamEnd

\* An exception leaves generate_stream and reaches chat's handler (routes.py
\* 429-432): HTTPException(500), with no call of force_process.
ChatRaise ==
  /\ AtNextToken /\ t_err_at = 0
  /\ \E site \in FailureSites(el_pc = "gen") : Escapes(site)
  /\ el_pc' = "idle" /\ chat_pc' = "none"
  /\ result' = [status |-> "error", response |-> <<>>]
  /\ UNCHANGED <<prog, wvars, el_ret, el_frag, el_tmp, el_text, st_pc, hist,
                 full_response, ext>>

TurnNext ==
  \/ WorkerPoll \/ WorkerRFind \/ WorkerLen \/ WorkerTake \/ WorkerRest
  \/ WorkerStore \/ WorkerSynth
  \/ TurnRequest \/ TurnStart \/ ChatDrain
  \/ TurnAddText \/ GenRaise \/ TurnErrFragment \/ AddTextStore
  \/ TurnStreamEnd \/ ForceTake \/ ForceClear \/ ForceSynth
  \/ ChatFinish \/ ChatRaise

TurnSpec == Init /\ [][TurnNext]_vars

\* ---------------------------------------------------- generate_stream
\* GenSpec: one call of LLMManager.generate_stream, token by token.  The
\* model's next token is any of three kinds: text, a newline, or a token that
\* decodes to the empty string.
TokenKinds == {"text", "newline", "empty"}

genframe == <<prog, wvars, elvars, chat_pc, st_pc, hist, resp, ringvars,
              stvars, tvars, more>>

Fragment(kind, i) == [kind |-> kind, i |-> i]

\* A loop of one round too many: a variant C20 must tell apart from the
\* code's.
InRangeLE(i) == i <= max_new_tokens

\* `for i in range(max_new_tokens)`
InRange(i) == i < max_new_tokens

\* The first pull: the counters are initialised (432-433, 488-490) and the
\* generator enters its loop, or prepare_messages raises (443) and the
\* exception leaves the generator.
GenStart ==
  /\ g_pc = "idle"
  /\ \E raised \in BOOLEAN : g_pc' = IF raised THEN "raised" ELSE "loop"
  /\ g_i' = 0 /\ newline_counter' = 0 /\ empty_token_count' = 0
  /\ UNCHANGED <<g_out, genframe>>

\* One round of the loop (498-561): a newline is counted and ends the loop
\* at the limit; any other token resets that count; an empty token is
\* counted, ends the loop at the limit and is skipped otherwise; every other
\* token is yielded.
GenToken ==
  /\ g_pc = "loop" /\ InRange(g_i)
  /\ \E kind \in TokenKinds :
       LET nl == IF kind = "newline" THEN newline_counter + 1 ELSE 0
           em == IF kind = "empty" THEN empty_token_count + 1 ELSE 0
       IN  /\ newline_counter' = nl
           /\ IF kind = "newline" /\ nl >= NewlineLimit
              THEN /\ g_pc' = "report"
                   /\ UNCHANGED <<g_i, empty_token_count, g_out>>
              ELSE /\ empty_token_count' = em
                   /\ IF kind = "empty" /\ em >= EmptyLimit
                      THEN g_pc' = "report" /\ UNCHANGED <<g_i, g_out>>
                      ELSE /\ g_i' = g_i + 1 /\ UNCHANGED g_pc
                           /\ g_out' = IF kind = "empty" THEN g_out
                                       ELSE Append(g_out, Fragment(kind, g_i))
  /\ UNCHANGED genframe

\* range(max_new_tokens) is exhausted.
GenLoopEnd ==
  /\ g_pc = "loop" /\ ~InRange(g_i)
  /\ g_pc' = "report"
  /\ UNCHANGED <<g_i, newline_counter, empty_token_count, g_out, genframe>>

\* The performance report (563-587); the generator returns.
GenReport ==
  /\ g_pc = "report"
  /\ g_pc' = "done"
  /\ UNCHANGED <<g_i, newline_counter, empty_token_count, g_out, genframe>>

\* An exception inside the try block, in the loop or in the report: the
\* handler (588-599) yields the error message and the generator returns.
GenFail ==
  /\ g_pc \in {"loop", "report"}
  /\ g_out' = Append(g_out, Fragment("error", g_i))
  /\ g_pc' = "done"
  /\ UNCHANGED <<g_i, newline_counter, empty_token_count, genframe>>

GenNext == GenStart \/ GenToken \/ GenLoopEnd \/ GenReport \/ GenFail

GenSpec == Init /\ [][GenNext]_vars

\* ------------------------------------------- two requests on one loop
\* OverlapSpec: two calls of chat on the event loop.  chat holds no lock and
\* the loop runs a coroutine from one await to the next, so each action is
\* one such stretch of chat: from its start or from a per-token
\* asyncio.sleep(0.01) to the next sleep.  The generator worker and the
\* channel are left out.
overlapframe == <<wvars, elvars, chat_pc, st_pc, turnhist, units, sthist, resp,
                  ringvars, stvars, tvars, gvars, jvars, pvars, evvars, late>>

\* h_ops with request h noted as the one that changed the buffers last.
Noted(ops, h) ==
  IF ops # <<>> /\ ops[Len(ops)] = h THEN ops ELSE Append(ops, h)

\* What generate_stream gives at a pull: a fragment, or EndOfStream when it
\* is exhausted.
EndOfStream == <<>>
Pulls(n) == IF n < MaxHFrags THEN Fragments \cup {EndOfStream} ELSE {EndOfStream}

\* From the head of `for text_chunk in generate_stream(messages)` to the next
\* await, starting with the buffers `buffer` and `queue`: add_text of the
\* fragment pulled (and its force_process when the fragment holds '.', '!' or
\* '?'), or, at the end of the stream, chat's force_process.
PullFrom(h, buffer, queue) ==
  \E pull \in Pulls(h_frags[h]), ok \in BOOLEAN :
    LET text == IF pull = EndOfStream THEN buffer ELSE buffer \o Tag(pull, h)
        force == pull = EndOfStream \/ HasForceMark(Tag(pull, h))
        audio == IF force /\ Len(text) > 0
                 THEN GenerateAudio(text, ok) ELSE <<>>
    IN  /\ text_buffer' = IF force THEN <<>> ELSE text
        /\ IF Len(audio) > 0
           THEN /\ audio_queue' = Append(queue, audio)
                /\ last_enq' = audio
                /\ enq_hi' = IF last_enq # <<>> /\ MinF(last_enq) > enq_hi
                             THEN MinF(last_enq) ELSE enq_hi
                /\ persistent_audio_buffer' =
                     RingPush(persistent_audio_buffer, audio)
           ELSE /\ audio_queue' = queue
                /\ UNCHANGED <<persistent_audio_buffer, enqhist>>
        /\ h_pc' = [h_pc EXCEPT ![h] =
                     IF pull = EndOfStream THEN "final_wait" ELSE "token_wait"]
        /\ h_frags' = [h_frags EXCEPT ![h] =
                        IF pull = EndOfStream THEN @ ELSE @ + 1]
        /\ h_ops' = Noted(h_ops, h)

\* A request arrives: the reset (text_buffer = "", audio_queue drained), then
\* the first pull; there is no await between them.
OverlapStart(h) ==
  /\ h_pc[h] = "none"
  /\ PullFrom(h, <<>>, <<>>)
  /\ UNCHANGED overlapframe

\* The request resumes from asyncio.sleep(0.01) and pulls again.
OverlapResume(h) ==
  /\ h_pc[h] = "token_wait"
  /\ PullFrom(h, text_buffer, audio_queue)
  /\ UNCHANGED overlapframe

\* The request resumes from asyncio.sleep(0.5) and returns its response.
OverlapFinish(h) ==
  /\ h_pc[h] = "final_wait"
  /\ h_pc' = [h_pc EXCEPT ![h] = "done"]
  /\ UNCHANGED <<prog, enqhist, h_frags, h_ops, overlapframe>>

OverlapNext ==
  \/ \E h \in Handlers : OverlapStart(h)
  \/ \E h \in Handlers : OverlapResume(h)
  \/ \E h \in Handlers : OverlapFinish(h)

OverlapSpec == Init /\ [][OverlapNext]_vars

\* ------------------------------------------------------ wait_until_done
\* WaitSpec: one call of TTSManager.wait_until_done (tts.py 620-637), with a
\* producer that puts audio units, pending text that arrives, and a consumer
\* that takes units with get_next_audio.
waitframe == <<wvars, elvars, chat_pc, st_pc, turnhist, units, sthist, resp,
               ringvars, stvars, tvars, gvars, hvars, pvars, evvars, late>>

\* A synthesis elsewhere puts a unit: Queue.put counts it as unfinished.
WaitPut ==
  /\ j_puts < MaxWaitUnits
  /\ PutAudio(Tag(<<"a">>, j_puts + 1))
  /\ j_puts' = j_puts + 1
  /\ unfinished_tasks' = unfinished_tasks + 1
  /\ UNCHANGED <<text_buffer, j_pc, j_removed, waitframe>>

\* add_text leaves pending text in text_buffer.
WaitAddText ==
  /\ j_pc = "idle" /\ text_buffer = <<>>
  /\ text_buffer' = PendingText
  /\ UNCHANGED <<audio_queue, persistent_audio_buffer, enqhist, jvars,
                 waitframe>>

\* A consumer's get_next_audio returns a unit (lines 595-602): the return
\* comes before the task_done() of line 609, which is never executed.
WaitConsume ==
  /\ audio_queue # <<>>
  /\ audio_queue' = Tail(audio_queue)
  /\ UNCHANGED <<text_buffer, persistent_audio_buffer, enqhist, jvars,
                 waitframe>>

\* wait_until_done is called: force_process (line 623).
WaitCall ==
  /\ j_pc = "idle"
  /\ IF Len(text_buffer) > 0
     THEN /\ text_buffer' = <<>>
          /\ \E ok \in BOOLEAN :
               LET audio == GenerateAudio(text_buffer, ok)
               IN  /\ PutAudio(audio)
                   /\ unfinished_tasks' =
                        unfinished_tasks + (IF Len(audio) > 0 THEN 1 ELSE 0)
     ELSE UNCHANGED <<prog, enqhist, unfinished_tasks>>
  /\ j_pc' = "join"
  /\ UNCHANGED <<j_puts, j_removed, waitframe>>

\* `self.audio_queue.join(timeout=5.0)`: queue.Queue.join takes no argument,
\* so the call raises TypeError whatever the state of the queue, and the
\* handler of line 629 is entered.
WaitJoin ==
  /\ j_pc = "join"
  /\ j_pc' = "drain"
  /\ UNCHANGED <<prog, enqhist, unfinished_tasks, j_puts, j_removed, waitframe>>

\* One round of `while not self.audio_queue.empty(): get_nowait();
\* task_done()` (lines 633-635); wait_until_done returns when empty() is true.
WaitDrain ==
  /\ j_pc = "drain"
  /\ IF ~QueueEmpty(audio_queue)
     THEN /\ audio_queue' = Tail(audio_queue)
          /\ unfinished_tasks' = unfinished_tasks - 1
          /\ j_removed' = j_removed + 1
          /\ UNCHANGED j_pc
     ELSE /\ j_pc' = "returned"
          /\ UNCHANGED <<audio_queue, unfinished_tasks, j_removed>>
  /\ UNCHANGED <<text_buffer, persistent_audio_buffer, enqhist, j_puts,
                 waitframe>>

WaitNext ==
  \/ WaitPut \/ WaitAddText \/ WaitConsume
  \/ WaitCall \/ WaitJoin \/ WaitDrain

WaitSpec == Init /\ [][WaitNext]_vars

\* ------------------------------------------- _should_process_buffer alone
\* PollSpec: calls of _should_process_buffer that nothing interrupts, on every
\* buffer of at most MaxPollLen characters of PollChars.  None of these
\* characters makes add_text call force_process.
PollChars == {"a", " ", ":", ";"}

pollframe == <<audio_queue, persistent_audio_buffer, wvars, elvars, chat_pc,
               st_pc, hist, resp, ringvars, stvars, tvars, gvars, hvars, jvars,
               evvars, late>>

\* The marks of sentence_end_marks, in list order, whose rfind passes
\* `index > 0 and len(self.text_buffer) > self.min_buffer_size`.
MarksFound(buffer) ==
  {i \in 1..Len(sentence_end_marks) :
     RFind(buffer, sentence_end_marks[i]) > 0 /\ OverThreshold(Len(buffer))}

\* `for mark in sentence_end_marks:` returns at the first mark that passes.
ChosenMark(buffer) == sentence_end_marks[SetMin(MarksFound(buffer))]

\* _should_process_buffer, lines 271-286 and 309: the text returned (<<>> for
\* None) and the buffer left.
ShouldProcess(buffer) ==
  IF buffer = <<>> \/ MarksFound(buffer) = {}
  THEN [unit |-> <<>>, rest |-> buffer]
  ELSE LET index == RFind(buffer, ChosenMark(buffer))
       IN  [unit |-> Strip(Prefix(buffer, index + 1)),
            rest |-> Strip(Suffix(buffer, index + 1))]

\* add_text of one character.
PollAddText ==
  /\ Len(text_buffer) < MaxPollLen
  /\ \E c \in PollChars : text_buffer' = text_buffer \o Tag(<<c>>, 0)
  /\ UNCHANGED <<pvars, pollframe>>

\* One call of _should_process_buffer.
PollCall ==
  /\ p_before' = text_buffer
  /\ p_unit' = ShouldProcess(text_buffer).unit
  /\ text_buffer' = ShouldProcess(text_buffer).rest
  /\ p_after' = ShouldProcess(text_buffer).rest
  /\ UNCHANGED pollframe

PollNext == PollAddText \/ PollCall

PollSpec == Init /\ [][PollNext]_vars

\* --------------------------------------------- the LLM worker thread
\* LlmSpec: LLMManager in stream mode (llm.py 86-90): stream_request puts
\* requests on llm_queue, _llm_worker takes them, wait_until_done joins the
\* queue and shutdown ends the thread.  The thread is scheduled whenever it
\* can run, and so is a caller blocked in join.
llmframe == <<prog, wvars, elvars, chat_pc, st_pc, hist, resp, ringvars,
              stvars, tvars, gvars, hvars, jvars, pvars, evvars, kvars, cvars,
              ovars>>

\* Calling a generator function runs none of its body: the call at line 235
\* returns a generator object, which the worker drops.
CallGenerator(state) == "created"

\* stream_request (643-661): the request is put on the queue.
LlmSubmit ==
  /\ llm_running /\ l_sub < MaxRequests
  /\ l_sub' = l_sub + 1
  /\ llm_queue' = Append(llm_queue, l_sub + 1)
  /\ llm_unfinished' = llm_unfinished + 1
  /\ UNCHANGED <<llm_running, l_pc, l_item, l_marked, l_gens, l_wait,
                 llmframe>>

\* `item = self.llm_queue.get(timeout=0.5)` returns an item: None breaks out
\* of the loop through finally, which does nothing for None; a request goes
\* on to be processed.
LlmGet ==
  /\ l_pc = "get" /\ llm_queue # <<>>
  /\ l_item' = Head(llm_queue)
  /\ llm_queue' = Tail(llm_queue)
  /\ l_pc' = IF Head(llm_queue) = None THEN "exited" ELSE "process"
  /\ UNCHANGED <<llm_unfinished, llm_running, l_sub, l_marked, l_gens, l_wait, llmframe>>

\* The queue stayed empty for 0.5 s: get raises queue.Empty, `continue`
\* leads to finally.  `item` keeps the value of the previous round.
LlmTimeout ==
  /\ l_pc = "get" /\ llm_queue = <<>>
  /\ l_pc' = "finally"
  /\ UNCHANGED <<llm_queue, llm_unfinished, llm_running, l_item, l_sub,
                 l_marked, l_gens, l_wait, llmframe>>

\* Lines 225-238: the request has a callback, so the worker calls
\* self.generate_stream(messages, callback, **options) and goes to finally.
LlmProcess ==
  /\ l_pc = "process"
  /\ l_gens' = [l_gens EXCEPT ![l_item] = CallGenerator(@)]
  /\ l_marked' = l_marked \cup {l_item}
  /\ l_pc' = "finally"
  /\ UNCHANGED <<llm_queue, llm_unfinished, llm_running, l_item, l_sub,
                 l_wait, llmframe>>

\* finally (247-250): `if 'item' in locals() and item is not None:
\* self.llm_queue.task_done()`.  task_done raises ValueError when no task is
\* unfinished; raised in finally, it leaves the loop and ends the thread.
LlmFinally ==
  /\ l_pc = "finally"
  /\ IF l_item \in {Unset, None}
     THEN l_pc' = "get" /\ UNCHANGED llm_unfinished
     ELSE IF llm_unfinished = 0
     THEN l_pc' = "dead" /\ UNCHANGED llm_unfinished
     ELSE l_pc' = "get" /\ llm_unfinished' = llm_unfinished - 1
  /\ UNCHANGED <<llm_queue, llm_running, l_item, l_sub, l_marked, l_gens,
                 l_wait, llmframe>>

\* `while self.is_running:` is false.
LlmLoopExit ==
  /\ l_pc = "get" /\ ~llm_running
  /\ l_pc' = "exited"
  /\ UNCHANGED <<llm_queue, llm_unfinished, llm_running, l_item, l_sub,
                 l_marked, l_gens, l_wait, llmframe>>

\* shutdown (668-674): is_running = False and None is put on the queue.
LlmShutdown ==
  /\ llm_running
  /\ llm_running' = FALSE
  /\ llm_queue' = Append(llm_queue, None)
  /\ llm_unfinished' = llm_unfinished + 1
  /\ UNCHANGED <<l_pc, l_item, l_sub, l_marked, l_gens, l_wait,
                 llmframe>>

\* wait_until_done (663-666) is called: self.llm_queue.join().
LlmWaitCall ==
  /\ l_wait = "idle" /\ l_sub > 0
  /\ l_wait' = "joining"
  /\ UNCHANGED <<llm_queue, llm_unfinished, llm_running, l_pc, l_item, l_sub,
                 l_marked, l_gens, llmframe>>

\* join returns once unfinished_tasks is 0.
LlmWaitReturn ==
  /\ l_wait = "joining" /\ llm_unfinished = 0
  /\ l_wait' = "returned"
  /\ UNCHANGED <<llm_queue, llm_unfinished, llm_running, l_pc, l_item, l_sub,
                 l_marked, l_gens, llmframe>>

\* The caller goes on after wait_until_done.
LlmWaitOver ==
  /\ l_wait = "returned"
  /\ l_wait' = "idle"
  /\ UNCHANGED <<llm_queue, llm_unfinished, llm_running, l_pc, l_item, l_sub,
                 l_marked, l_gens, llmframe>>

LlmWorker == LlmGet \/ LlmTimeout \/ LlmProcess \/ LlmFinally \/ LlmLoopExit

LlmNext ==
  \/ LlmSubmit \/ LlmGet \/ LlmTimeout \/ LlmProcess \/ LlmFinally
  \/ LlmLoopExit \/ LlmShutdown \/ LlmWaitCall \/ LlmWaitReturn \/ LlmWaitOver

LlmSpec ==
  Init /\ [][LlmNext]_vars /\ WF_vars(LlmWorker) /\ WF_vars(LlmWaitReturn)

\* ------------------------------------------- the end of the worker thread
\* StopSpec: RingSpec with TTSManager.is_running.  shutdown and cleanup set
\* the flag to False; the generator worker tests it at the head of its loop
\* (tts.py 166) and returns when it is False.  The worker thread is scheduled
\* whenever it can run.
stopframe == <<prog, elvars, chat_pc, st_pc, hist, resp, ringvars, stvars,
               tvars, gvars, hvars, jvars, pvars, evvars, lvars, cvars, ovars>>

\* `while self.is_running:` holds and the worker's round synthesizes a unit;
\* force_process on the event loop does not look at the flag.
StopBegin(t) ==
  /\ t = "worker" => is_running
  /\ RingBegin(t)

\* shutdown (line 642) or cleanup (line 667): self.is_running = False.
StopShutdown ==
  /\ is_running
  /\ is_running' = FALSE
  /\ UNCHANGED <<wvars, stopframe>>

\* `while self.is_running:` is false: _generator_worker returns.
StopExit ==
  /\ w_pc = "poll" /\ ~is_running
  /\ w_pc' = "exited"
  /\ UNCHANGED <<w_mark, w_index, w_text, w_rest, kvars, stopframe>>

StopWorker ==
  \/ StopBegin("worker") \/ RingCheckFull("worker")
  \/ RingGetNowait("worker") \/ RingPut("worker") \/ StopExit

StopNext ==
  \/ \E t \in Threads : StopBegin(t)
  \/ \E t \in Threads : RingCheckFull(t)
  \/ \E t \in Threads : RingGetNowait(t)
  \/ \E t \in Threads : RingPut(t)
  \/ StreamConnect \/ RingClearStart \/ RingClearStep
  \/ StopShutdown \/ StopExit

StopSpec == Init /\ [][StopNext]_vars /\ WF_vars(StopWorker)

\* ---------------------------------------------- the client's streams
\* ClientSpec: the Streamlit client's start_tts_stream and stop_tts_stream
\* (app.py 333-390) with the receive threads they start (handle_tts_stream,
\* 392-492) and the player thread that empties the queue (audio_player, 564-567).
\* A receive thread is numbered by the start that created it.
clientframe == <<prog, wvars, elvars, chat_pc, st_pc, hist, resp, ringvars,
                 stvars, tvars, gvars, hvars, jvars, pvars, evvars, lvars,
                 kvars, ovars>>

\* `thread.join(timeout=0.5)` on a receive thread: handle_tts_stream never
\* looks at stop_event, so the join has no effect on the set of running
\* threads.
Joined(alive, threads) == alive

\* stop_tts_stream (360-390): set the event, empty the queue, join the
\* threads with a timeout, clear the list.
StopTtsStream ==
  /\ stop_event' = TRUE
  /\ client_audio_queue' = <<>>
  /\ c_alive' = Joined(c_alive, audio_stream_threads)
  /\ audio_stream_threads' = {}
  /\ c_current' = 0
  /\ UNCHANGED <<c_started, clientframe>>

\* start_tts_stream (333-358): stop_tts_stream, then clear the event, bind
\* audio_queue to a new queue and start a receive thread.
StartTtsStream ==
  /\ c_started < MaxStarts
  /\ stop_event' = FALSE
  /\ client_audio_queue' = <<>>
  /\ c_alive' = Joined(c_alive, audio_stream_threads) \cup {c_started + 1}
  /\ audio_stream_threads' = {c_started + 1}
  /\ c_current' = c_started + 1
  /\ c_started' = c_started + 1
  /\ UNCHANGED clientframe

\* handle_tts_stream, line 459: an audio event arrives and the thread puts it
\* on whatever queue the global audio_queue names now.
ReceiveAudio(t) ==
  /\ t \in c_alive /\ Len(client_audio_queue) < MaxClientQueue
  /\ client_audio_queue' = Append(client_audio_queue, t)
  /\ UNCHANGED <<stop_event, audio_stream_threads, c_alive, c_current,
                 c_started, clientframe>>

\* The response ends, or the retries are used up: handle_tts_stream returns.
ReceiveEnd(t) ==
  /\ t \in c_alive
  /\ c_alive' = c_alive \ {t}
  /\ UNCHANGED <<stop_event, audio_stream_threads, client_audio_queue,
                 c_current, c_started, clientframe>>

\* audio_player (564-567): while the event is not set, take an item.
PlayerTake ==
  /\ ~stop_event /\ client_audio_queue # <<>>
  /\ client_audio_queue' = Tail(client_audio_queue)
  /\ UNCHANGED <<stop_event, audio_stream_threads, c_alive, c_current,
                 c_started, clientframe>>

ClientNext ==
  \/ StopTtsStream \/ StartTtsStream \/ PlayerTake
  \/ \E t \in 1..MaxStarts : ReceiveAudio(t)
  \/ \E t \in 1..MaxStarts : ReceiveEnd(t)

ClientSpec == Init /\ [][ClientNext]_vars

\* ------------------------------------------- the conversation history
\* HistSpec: the history chat stores for one conversation identifier
\* (routes.py 312-316, 392-415) and its compaction.  A message is its role
\* and the number it got when it was created; the summary message has
\* number 0.  From the sleep of line 390 to the return no await suspends the
\* handler (the coroutines awaited at line 414 contain no suspension), so the
\* update is one step.
histframe == <<prog, wvars, elvars, chat_pc, st_pc, hist, resp, ringvars,
               stvars, tvars, gvars, hvars, jvars, pvars, evvars, lvars,
               kvars, cvars>>

Message(role, n) == [role |-> role, n |-> n]

\* The contexts a request can supply: up to MaxContext messages of the roles
\* user and assistant, numbered from `from` on.
Contexts(from) ==
  UNION {{[k \in 1..n |-> Message(roles[k], from + k)] :
            roles \in [1..n -> {"user", "assistant"}]} : n \in 1..MaxContext}

\* What generate_conversation_summary returns (lines 54-91): "" for fewer than
\* two messages; else the text of llm_manager.generate, which may be empty, or
\* the fixed text of the exception handler.
Summaries(messages) ==
  IF Len(messages) < 2 THEN {""} ELSE {"", "summary"}

\* A compaction that keeps four messages: a variant C38 must tell apart from
\* the code's.
RecentFour(history) ==
  SubSeq(history, SetMax({1, Len(history) - 3}), Len(history))

\* `history[-2:]`
Recent(history) == SubSeq(history, SetMax({1, Len(history) - 1}), Len(history))

\* `history[:-2]`
Earlier(history) == SubSeq(history, 1, Len(history) - Len(Recent(history)))

\* optimize_conversation_history (96-141) with the summary it was given.
OptimizeHistory(history, summary) ==
  IF Earlier(history) = <<>> \/ summary = "" THEN Recent(history)
  ELSE <<Message("system", 0)>> \o Recent(history)

\* A /llm turn that returns its response: the context is the supplied one or
\* the stored history; the new messages are appended and stored; a stored
\* history of more than 4 messages is replaced by its compaction.
HistTurn ==
  /\ o_turns < MaxHistTurns
  /\ \E supplied \in Contexts(o_next) \cup {<<>>} :
       LET context == IF supplied # <<>> THEN supplied ELSE conversation_history
           base == o_next + Len(supplied)
           answered == context # <<>> /\ context[Len(context)].role = "user"
           current_history ==
             IF answered THEN Append(context, Message("assistant", base + 1))
             ELSE context \o <<Message("user", base + 1),
                                Message("assistant", base + 2)>>
       IN  /\ o_next' = base + (IF answered THEN 1 ELSE 2)
           /\ IF Len(current_history) > 4
              THEN \E summary \in Summaries(Earlier(current_history)) :
                     /\ o_in' = current_history
                     /\ o_out' = OptimizeHistory(current_history, summary)
                     /\ conversation_history' = o_out'
              ELSE /\ conversation_history' = current_history
                   /\ UNCHANGED <<o_in, o_out>>
  /\ o_turns' = o_turns + 1
  /\ UNCHANGED histframe

HistNext == HistTurn

HistSpec == Init /\ [][HistNext]_vars

\* ------------------------------------------------------------- claims
IsMark(c) == \E i \in 1..Len(sentence_end_marks) : sentence_end_marks[i] = c
EndsInMark(s) == s # <<>> /\ IsMark(s[Len(s)].c)

\* C1: no audio event carries text that was fed before the reset of the turn
\* it is emitted in.
C1_NoStaleAudio ==
  \A i \in 1..Len(last_event.unit) : last_event.unit[i].f > last_event.fence

\* C2: in the state the turn-start reset leaves when it completes, text_buffer
\* is empty and audio_queue holds no unit.
C2_ResetInvariant ==
  [][(el_pc = "drain" /\ el_pc' = "gen")
       => (text_buffer' = <<>> /\ audio_queue' = <<>>)]_vars

\* C3: once the final force_process of the first turn has returned and the
\* worker is out of _should_process_buffer, the text units emitted in the turn,
\* concatenated in emission order, are the fragments fed, concatenated.
C3_Lossless ==
  (turn = 1 /\ chat_pc = "final_wait" /\ w_pc \in {"poll", "synth"})
    => Flatten(units) = fed

\* C4: the worker and a force_process caller are never both inside
\* _generate_audio_internal.
C4_NoConcurrentSynthesis == ~(w_pc = "synth" /\ el_pc = "fp_synth")

\* C5: no audio unit is put on audio_queue after a unit made only of text
\* that was fed later.
C5_EnqueueOrder == last_enq # <<>> => MaxF(last_enq) >= enq_hi

\* C6 as stated: every unit the channel took from audio_queue was emitted as
\* one audio event.
C6_EveryTakenUnitEmitted ==
  /\ n_events = n_taken
  /\ n_taken > 0 => last_event.unit = last_taken

\* C6 as amended: every unit the channel took was emitted as one audio event
\* or was dropped because its encoding raised, and the event of the unit
\* taken last carries that unit.
C6_TakenEmittedOrFailed ==
  /\ n_taken = n_events + n_conv_err
  /\ last_event # NoEvent => last_event.unit = last_taken

C6_Witness == n_events >= 2 /\ n_conv_err >= 1 /\ last_event # NoEvent

\* C7: when add_text has returned and the buffer it left is everything fed in
\* the turn, ends in a sentence mark and has min_buffer_size characters or
\* more, a unit was emitted for it: no such buffer is left waiting.
C7_BoundaryRule ==
  ~(/\ el_pc = "idle" /\ chat_pc = "streaming"
    /\ text_buffer = fed /\ units = <<>>
    /\ EndsInMark(fed) /\ Len(fed) >= min_buffer_size)

C9_ScenarioA ==
  /\ (turn = 1 /\ Text(fed) = <<"a", " ">> /\ chat_pc = "streaming")
       => units = <<>>
  /\ (turn = 1 /\ Text(fed) = <<"a", " ", "?">>)
       => (units = <<>> \/ units = <<fed>>)
  /\ (turn = 1 /\ Text(fed) = <<"a", " ", "?">> /\ chat_pc = "final_wait"
        /\ w_pc = "poll")
       => units = <<fed>>

\* C10: when a force_process that took a non-empty buffer returns, the text it
\* took is a unit of the turn and the buffer is empty.
C10_ForceFlush ==
  [][(el_pc = "fp_synth" /\ el_pc' # "fp_synth")
       => (text_buffer' = <<>> /\ \E i \in 1..Len(units) : units[i] = el_text)]_vars

\* The last k elements of s.
LastK(s, k) == SubSeq(s, Len(s) - k + 1, Len(s))

\* C11: the ring never holds more than RingCapacity units, and whenever no
\* push and no emptying is under way it holds the last min(n, RingCapacity) of
\* the n units pushed since it was last emptied, oldest first.
C11_RingHoldsLast ==
  /\ Len(persistent_audio_buffer) <= RingCapacity
  /\ (w_pc = "poll" /\ el_pc = "idle" /\ st_pc # "clearing")
       => persistent_audio_buffer =
            LastK(r_pushed, IF Len(r_pushed) < RingCapacity THEN Len(r_pushed)
                            ELSE RingCapacity)

\* idleTimeout x strikeCount, in ticks.
IdleDeadline == max_idle_time * MaxIdleStrikes * TicksPerSecond

\* C12: a channel that has taken no unit since its last audio event, with
\* text_buffer empty all that time, is not still in its loop more than one
\* poll interval after idleTimeout x strikeCount.
C12_IdleClose ==
  (st_pc \in {"polling", "retry"} /\ s_quiet)
    => s_elapsed <= IdleDeadline + PollSleep

\* C17: after an error raised in its loop the channel does not poll again.
C17_ErrorCloses ==
  [][st_pc = "retry" => st_pc' # "polling"]_vars

\* C18 as stated: a channel that connects during a turn still holds, once it
\* is connected, the units of the ring that it is to deliver first.
C18_RingReplayed ==
  [][(st_pc = "opened" /\ st_pc' = "polling" /\ chat_pc # "none")
       => persistent_audio_buffer' = persistent_audio_buffer]_vars

\* C18, amended: a channel that connects discards every unit held in the
\* ring and delivers none of them from there; each audio event it emits
\* carries the unit at the head of audio_queue, which is taken off the queue.
C18_RingDiscarded ==
  [][/\ (st_pc = "opened" /\ st_pc' = "polling")
          => (persistent_audio_buffer' = <<>> /\ n_events' = n_events)
     /\ (n_events' > n_events)
          => /\ audio_queue # <<>>
             /\ last_event'.unit = Head(audio_queue)
             /\ audio_queue' = Tail(audio_queue)
             /\ persistent_audio_buffer' = persistent_audio_buffer]_vars

\* The channel connected during turn 1 after a unit was enqueued and mirrored,
\* emptied the ring, and has delivered a unit from audio_queue.
C18_Witness ==
  /\ turn = 1 /\ chat_pc = "streaming" /\ st_pc = "polling"
  /\ last_enq # <<>> /\ persistent_audio_buffer = <<>>
  /\ n_events > 0 /\ last_event # NoEvent

C13_FlushBeforeReport ==
  [][(/\ result.status = "pending" /\ result'.status # "pending"
      /\ frags_in_turn > 0
      /\ (t_err_at # 0 \/ result'.status = "error"))
       => chat_pc = "final_wait"]_vars

\* A turn whose generator failed after a fragment has been answered, and a
\* unit of its text was taken for synthesis.
C13_Witness ==
  /\ t_turn = turn /\ chat_pc = "none" /\ t_err_at # 0
  /\ result.status # "pending" /\ units # <<>>

\* C14: a turn in which generate_stream failed in the middle of its stream
\* is answered with an error, never with a successful response.
C14_FailureSurfaced ==
  (t_turn = turn /\ t_err_at # 0 /\ result.status # "pending")
    => result.status = "error"

\* C16: the response of a completed turn is the concatenation, in order, of
\* the fragments yielded in the turn, and add_text received those fragments
\* in that order.
C16_ResponseIsFed ==
  (chat_pc = "none" /\ result.status = "ok") => result.response = fed

\* A turn of two fragments or more has completed.
C16_Witness ==
  /\ chat_pc = "none" /\ result.status = "ok"
  /\ frags_in_turn >= 2 /\ Len(result.response) >= 3

\* The request being served is for another conversation than the turn before.
OtherConversation == t_prev # "none" /\ t_prev # t_conv

\* C19 as stated: the reset of a turn for one conversation leaves the pending
\* text and the queued audio of the turn before, for another conversation, as
\* they are.
C19_ScopedReset ==
  [][OtherConversation
       => /\ (turn' = turn + 1) => text_buffer' = text_buffer
          /\ (el_pc = "drain") => Len(audio_queue') >= Len(audio_queue)]_vars

\* C19, amended: the reset of a turn is global; whatever the conversation of
\* the request, it empties text_buffer and the handler goes on to the
\* generator only when audio_queue is empty.
C19_ResetIsGlobal ==
  [][/\ (turn' = turn + 1) => text_buffer' = <<>>
     /\ (el_pc = "drain" /\ el_pc' = "gen")
          => (audio_queue = <<>> /\ audio_queue' = <<>>)]_vars

\* The reset of a turn for one conversation is over; audio of the turn
\* before, for another conversation, had been enqueued, no channel took it,
\* and audio_queue is empty.
C19_Witness ==
  /\ OtherConversation /\ t_turn = turn /\ el_pc = "gen"
  /\ last_enq # <<>> /\ n_taken = 0 /\ audio_queue = <<>>

\* The fragments of g_out that are not the error message.
Tokens(out) == {k \in 1..Len(out) : out[k].kind # "error"}

\* C20: generate_stream yields at most max_new_tokens fragments, in the order
\* of generation, then at most one error message, which is the last fragment;
\* once the generator has returned it yields nothing more.
C20_FiniteStream ==
  [][/\ Cardinality(Tokens(g_out')) <= max_new_tokens
     /\ Len(g_out') <= max_new_tokens + 1
     /\ \A k \in 1..Len(g_out') :
          /\ g_out'[k].kind = "error" => k = Len(g_out')
          /\ (k > 1 /\ g_out'[k].kind # "error") => g_out'[k].i > g_out'[k - 1].i
     /\ SubSeq(g_out', 1, Len(g_out)) = g_out
     /\ g_pc \in {"done", "raised"} => (g_out' = g_out /\ g_pc' = g_pc)]_vars

\* The generator has returned after max_new_tokens fragments and the error
\* message.
C20_Witness ==
  /\ g_pc = "done" /\ Len(g_out) = max_new_tokens + 1
  /\ g_out[Len(g_out)].kind = "error"

\* C21: the resets, add_text calls and force_process calls of one turn are
\* not interleaved with those of another: in the order in which requests
\* changed the buffers, each request appears as one block.
C21_SingleWriter ==
  \A h \in Handlers :
    Cardinality({k \in 1..Len(h_ops) : h_ops[k] = h}) <= 1

\* C22: no thread waits without a timeout: a thread that has reached the put
\* into the ring finds room there.
C22_PutNeverBlocks ==
  \A t \in Threads :
    RingPc(t) = "ring_put" => Len(persistent_audio_buffer) < RingCapacity

\* C23: wait_until_done returns only when every unit put on audio_queue has
\* been marked consumed, and it takes no unit from audio_queue itself.
C23_WaitsForConsumers ==
  /\ j_removed = 0
  /\ j_pc = "returned" => unfinished_tasks = 0

\* The 1-based position of the right-most sentence-ending mark of s, or 0.
RightMostMark(s) == SetMax({0} \cup {i \in 1..Len(s) : IsMark(s[i].c)})

\* C24: the unit a poll returns is the buffer's prefix through the right-most
\* sentence-ending mark of any kind, and the buffer keeps exactly the text
\* after that mark.
C24_RightMostMark ==
  p_unit # <<>>
    => /\ p_unit = Prefix(p_before, RightMostMark(p_before))
       /\ p_after = Suffix(p_before, RightMostMark(p_before))

\* s holds a sentence-ending mark.
HasMark(s) == \E i \in 1..Len(s) : IsMark(s[i].c)

\* C25: a worker poll that extracts a unit, and a force_process called by
\* add_text or by get_next_audio, take their text only from a buffer that
\* holds a sentence-ending mark.
C25_MarklessNotEmitted ==
  [][/\ (w_pc = "take" /\ w_pc' = "rest" /\ w_text' # <<>>)
          => HasMark(text_buffer)
     /\ (el_pc = "fp_check" /\ el_pc' = "fp_clear"
           /\ el_ret \in {"add_text", "gna"}) => HasMark(text_buffer)]_vars

\* C26: the strike that brings the idle counter to the strike count ends the
\* stream.
C26_FifthStrikeCloses ==
  [][(idle_count = MaxIdleStrikes - 1 /\ idle_count' = MaxIdleStrikes)
       => st_pc' = "done"]_vars

\* C27: every unit the channel takes from audio_queue sets the idle counter
\* to zero.
C27_UnitResetsStrikes ==
  [][n_taken' > n_taken => idle_count' = 0]_vars

\* C28: a strike is counted, and the channel closes for idleness, only on a
\* poll that finds audio_queue empty and text_buffer empty more than
\* max_idle_time after the last audio.
C28_StrikeConditions ==
  [][(idle_count' > idle_count \/ (st_pc = "polling" /\ st_pc' = "done"))
       => /\ audio_queue = <<>> /\ n_taken' = n_taken
          /\ text_buffer = <<>>
          /\ s_elapsed > max_idle_time * TicksPerSecond]_vars

\* Strikes were counted, then text arrived, and the channel has gone on
\* polling past the threshold without closing.
C28_Witness ==
  /\ st_pc = "polling" /\ idle_count = MaxIdleStrikes
  /\ text_buffer # <<>>
  /\ s_elapsed > max_idle_time * TicksPerSecond + MaxIdleStrikes * PollSleep + ErrSleep

\* A ring entry all of whose text was fed before the current turn's reset.
Superseded(audio) == \A i \in 1..Len(audio) : audio[i].f <= fence

\* C29: once the connected event has been emitted, the ring holds no
\* superseded entry.
C29_DiscardBeforeConnected ==
  st_pc = "opened"
    => \A k \in 1..Len(persistent_audio_buffer) :
         ~Superseded(persistent_audio_buffer[k])

\* C29, amended: the step that emits the connected event leaves the ring as
\* it is, and the step after it empties the ring of every entry.
C29_ConnectedBeforeDiscard ==
  [][/\ (st_pc = "closed" /\ st_pc' = "opened")
          => persistent_audio_buffer' = persistent_audio_buffer
     /\ (st_pc = "opened" /\ st_pc' = "polling")
          => persistent_audio_buffer' = <<>>]_vars

\* The connected event is out and the ring still holds a superseded entry
\* next to one of the current turn.
C29_Witness ==
  /\ st_pc = "opened"
  /\ \E k \in 1..Len(persistent_audio_buffer) :
       Superseded(persistent_audio_buffer[k])
  /\ \E k \in 1..Len(persistent_audio_buffer) :
       ~Superseded(persistent_audio_buffer[k])

\* C30: the events of a channel are one connected event first, then audio
\* and ping events only, at most one error event, which nothing but the close
\* event follows, and one close event, which is the last event and has been
\* emitted when the generator is over.
C30_EventSequence ==
  LET n == Len(s_events)
  IN  /\ \A k \in 1..n : (s_events[k] = "connected") = (k = 1)
      /\ \A k \in 1..n :
           s_events[k] \in {"connected", "audio", "ping", "error", "close"}
      /\ \A k \in 1..n : s_events[k] = "close" => k = n
      /\ \A k \in 1..n :
           s_events[k] = "error"
             => k = n \/ (k = n - 1 /\ s_events[n] = "close")
      /\ st_pc = "done" => n > 0 /\ s_events[n] = "close"

\* A channel that emitted audio and pings, then failed in its error handler,
\* and is over.
C30_Witness ==
  /\ st_pc = "done"
  /\ \E k \in 1..Len(s_events) : s_events[k] = "audio"
  /\ \E k \in 1..Len(s_events) : s_events[k] = "ping"
  /\ \E k \in 1..Len(s_events) : s_events[k] = "error"

\* C31: the stream generate_stream has yielded holds no empty fragment and no
\* run of NewlineLimit consecutive newline fragments.
C31_NoNewlineRun ==
  /\ \A k \in 1..Len(g_out) : g_out[k].kind # "empty"
  /\ \A k \in 1..(Len(g_out) - NewlineLimit + 1) :
       \E j \in 0..(NewlineLimit - 1) : g_out[k + j].kind # "newline"

\* C32: while the manager is running, every request stream_request has put
\* is eventually taken and processed by the worker, and a wait_until_done
\* that was called returns.
C32_RequestsProcessed ==
  /\ \A r \in Requests : (l_sub >= r) ~> (r \in l_marked \/ ~llm_running)
  /\ (l_wait = "joining") ~> (l_wait = "returned" \/ ~llm_running)

\* C33: for every request with a callback that the worker has finished with,
\* the body of generate_stream, which calls the callback once per fragment,
\* has run.
C33_CallbackPerFragment ==
  \A r \in l_marked : l_gens[r] = "run"

\* C34: every unit removed from audio_queue has been marked consumed once:
\* between the operations of its consumers, the queue's count of unfinished
\* tasks is the number of units it holds.
C34_CountMatchesQueue ==
  unfinished_tasks = Len(audio_queue)

\* C35: once is_running is false, the generator worker ends the round it is
\* in and exits.
C35_WorkerExits ==
  (~is_running) ~> (w_pc = "exited")

\* C36: the client's audio queue holds only audio put by the receive thread
\* of the stream that has not been stopped, and at most one receive thread is
\* running.
C36_OnlyCurrentFeeds ==
  /\ \A k \in 1..Len(client_audio_queue) : client_audio_queue[k] = c_current
  /\ Cardinality(c_alive) <= 1

\* C37: what optimize_conversation_history returns is one summary system
\* message followed by the last four messages of its argument, as they were.
C37_KeepsTwoRounds ==
  o_in # <<>>
    => /\ Len(o_out) = 5
       /\ o_out[1] = Message("system", 0)
       /\ SubSeq(o_out, 2, 5) = SubSeq(o_in, Len(o_in) - 3, Len(o_in))

====
